---- MODULE Spec2Model ----
(***************************************************************************)
(* Model of the customer pipeline's HTTP client (src/src/api_client.py):   *)
(* CustomerAPIClient._request (GET with retry, backoff and Retry-After)    *)
(* and CustomerAPIClient.fetch_all_customers (pagination); of the          *)
(* processor (src/src/data_processor.py), the exporter                     *)
(* (src/src/exporter.py) and run_pipeline (src/src/main.py).               *)
(*                                                                         *)
(* The server is the environment: every GET draws its outcome from         *)
(* Responses.  session.get and time.sleep are recorded in `gets` and       *)
(* `sleeps` (what a mocked session and a patched time.sleep would see).    *)
(***************************************************************************)
EXTENDS Integers, Sequences, FiniteSets, TLC

VARIABLES
    max_retries,    \* self.max_retries
    backoff,        \* self.backoff
    pc,             \* position of the single thread of control
    page,           \* page number of the _fetch_page call in progress
    attempt,        \* loop variable of _request
    last_exc,       \* local last_exc of _request
    gets,           \* responses of the session.get calls of this _request
    sleeps,         \* arguments of the completed time.sleep calls of this _request
    ret,            \* JSON body returned by _request
    exc,            \* exception raised by _request
    data,           \* local accumulator of fetch_all_customers
    total_pages,    \* local total_pages of fetch_all_customers
    pagesFetched,   \* page numbers passed to _fetch_page, in call order
    served,         \* "data" fields of the bodies _request returned, in page order
    firstTotalPages, \* "total_pages" field of the body returned for page 1
    result,         \* return value of fetch_all_customers
    err,            \* exception raised by fetch_all_customers
    issued,         \* the GETs issued since fetch_all_customers was called
    raw_customers,  \* argument of process_customers
    cursor,         \* position of the loop of process_customers in raw_customers
    seen,           \* local dict `seen` of process_customers, in insertion order
    processed,      \* return value of process_customers
    proc_exc,       \* exception raised by process_customers
    proc_pc,        \* position of process_customers
    seed,           \* state of the random generator when process_customers starts
    rng,            \* state of the random generator
    customers,      \* argument of export_customers and generate_summary_report
    output,         \* the file at output_file
    export_exc,     \* exception raised by export_customers
    exp_pc,         \* position of the exporter
    report,         \* return value of generate_summary_report
    stage,          \* position of run_pipeline
    caught          \* the except clause of run_pipeline that handled an exception

clientVars == <<max_retries, backoff, pc, page, attempt, last_exc, gets, sleeps,
                ret, exc, data, total_pages, pagesFetched, served,
                firstTotalPages, result, err, issued>>

procVars == <<raw_customers, cursor, seen, processed, proc_exc, proc_pc, seed, rng>>

expVars == <<customers, output, export_exc, exp_pc, report>>

pipeVars == <<stage, caught>>

vars == <<clientVars, procVars, expVars, pipeVars, issued>>

----------------------------------------------------------------------------
\* Bounds of the exploration.

\* max_retries ranges over 0..MaxRetries
MaxRetries == 3
\* integer total_pages values sent by the server range over -1..MaxPages
MaxPages == 2
\* lists of raw records with duplicate ids have at most MaxRaw records
MaxRaw == 3
\* the random generator starts in one of the states 0..MaxSeed
MaxSeed == 1
\* lists of customers handed to the exporter have at most MaxCustomers records
MaxCustomers == 3

----------------------------------------------------------------------------
\* Program constants.

DEFAULT_MAX_RETRIES == 3
DEFAULT_BACKOFF == <<1, 2, 4>>
\* status_code: Optional[int] = None
NoStatus == -1
\* f"{self.base_url}/users"
URL == "base_url/users"

Min(a, b) == IF a <= b THEN a ELSE b

\* Python's 0-based subscript seq[i]
PyIndex(seq, i) == seq[i + 1]

----------------------------------------------------------------------------
\* Text: a Python str is a sequence of one-character strings.

Digits == {"0", "1", "2", "3", "4", "5", "6", "7", "8", "9"}

DigitVal(c) ==
    CASE c = "0" -> 0 [] c = "1" -> 1 [] c = "2" -> 2 [] c = "3" -> 3
      [] c = "4" -> 4 [] c = "5" -> 5 [] c = "6" -> 6 [] c = "7" -> 7
      [] c = "8" -> 8 [] c = "9" -> 9

RECURSIVE StripLeft(_)
StripLeft(s) ==
    IF s # <<>> /\ Head(s) = " " THEN StripLeft(Tail(s)) ELSE s

RECURSIVE StripRight(_)
StripRight(s) ==
    IF s # <<>> /\ s[Len(s)] = " " THEN StripRight(SubSeq(s, 1, Len(s) - 1)) ELSE s

RECURSIVE DigitsValue(_, _)
DigitsValue(s, acc) ==
    IF s = <<>> THEN acc ELSE DigitsValue(Tail(s), 10 * acc + DigitVal(Head(s)))

\* int(text) of a str: surrounding blanks are ignored, one optional sign, then
\* one or more decimal digits; anything else is a ValueError (ok = FALSE).
PyIntOfStr(text) ==
    LET t    == StripRight(StripLeft(text))
        sign == IF t # <<>> /\ Head(t) \in {"-", "+"} THEN Head(t) ELSE ""
        body == IF sign = "" THEN t ELSE Tail(t)
    IN  IF body # <<>> /\ \A i \in 1..Len(body) : body[i] \in Digits
        THEN [ok |-> TRUE,
              v  |-> IF sign = "-" THEN 0 - DigitsValue(body, 0)
                                   ELSE DigitsValue(body, 0)]
        ELSE [ok |-> FALSE, v |-> 0]

----------------------------------------------------------------------------
\* JSON values of the page body.

JMissing == [t |-> "missing", n |-> 0, s |-> <<>>]
JNull    == [t |-> "null", n |-> 0, s |-> <<>>]
JInt(n)  == [t |-> "int", n |-> n, s |-> <<>>]
JStr(s)  == [t |-> "str", n |-> 0, s |-> s]

\* truth value of  x  in  `x or default`  (dict.get gives None for a missing key)
PyTruthy(j) ==
    CASE j.t = "missing" -> FALSE
      [] j.t = "null"    -> FALSE
      [] j.t = "int"     -> j.n # 0
      [] j.t = "str"     -> j.s # <<>>

\* int(x) for a JSON value x
PyInt(j) ==
    CASE j.t = "int" -> [ok |-> TRUE, v |-> j.n]
      [] j.t = "str" -> PyIntOfStr(j.s)
      [] OTHER       -> [ok |-> FALSE, v |-> 0]

\* Raw records are opaque to the client: the numbers 1 and 2 stand for two of them.
DMissing == [t |-> "missing", l |-> <<>>]
DList(l) == [t |-> "list", l |-> l]

\* The "data" fields a page body may carry.
DataFields == {DMissing, DList(<<1, 1>>), DList(<<2, 1>>)}

\* The "total_pages" fields a page body may carry.
TotalPagesFields ==
    {JMissing, JNull, JStr(<<"x">>), JStr(<<"2">>)}
        \cup {JInt(n) : n \in (0 - 1)..MaxPages}

Body(d, tp) == [valid |-> TRUE, data |-> d, total_pages |-> tp]
\* a body for which resp.json() raises ValueError
InvalidBody == [valid |-> FALSE, data |-> DMissing, total_pages |-> JMissing]

Bodies == {Body(d, tp) : d \in DataFields, tp \in TotalPagesFields}

----------------------------------------------------------------------------
\* Responses of session.get.

NoHeader == [present |-> FALSE, text |-> <<>>]
Header(text) == [present |-> TRUE, text |-> text]

RetryAfterHeaders ==
    {NoHeader, Header(<<>>), Header(<<"x">>), Header(<<"7">>),
     Header(<<"-", "1">>)}

Statuses == {200, 302, 404, 429, 500}

HttpResponse(status, h, b) ==
    [kind |-> "http", status_code |-> status, retry_after |-> h, json |-> b]

\* session.get raised requests.RequestException
TransportError ==
    [kind |-> "exc", status_code |-> NoStatus, retry_after |-> NoHeader,
     json |-> InvalidBody]

Responses ==
    {TransportError}
      \cup {HttpResponse(200, NoHeader, b) : b \in Bodies \cup {InvalidBody}}
      \cup {HttpResponse(429, h, InvalidBody) : h \in RetryAfterHeaders}
      \cup {HttpResponse(s, NoHeader, InvalidBody) : s \in Statuses \ {200, 429}}

----------------------------------------------------------------------------
\* Exceptions.

Msg(text, code, cause) ==
    [text |-> text, code |-> code, cause |-> cause,
     str |-> FALSE, url |-> "", status |-> NoStatus, retries |-> 0]

NoMsg == Msg("", 0, "")

NoException ==
    [type |-> "None", msg |-> NoMsg, url |-> "", status_code |-> NoStatus,
     retries |-> 0]

APIClientError(msg, url, status_code, retries) ==
    [type |-> "APIClientError", msg |-> msg, url |-> url,
     status_code |-> status_code, retries |-> retries]

\* the requests.RequestException caught at line 79
RequestException ==
    [type |-> "RequestException", msg |-> Msg("connection failed", 0, ""),
     url |-> "", status_code |-> NoStatus, retries |-> 0]

ValueError(text) ==
    [type |-> "ValueError", msg |-> Msg(text, 0, ""), url |-> "",
     status_code |-> NoStatus, retries |-> 0]

\* APIClientError.__str__: the message followed by the url, the status and the
\* retries, each only when set.
Str(e) ==
    [text |-> e.msg.text, code |-> e.msg.code, cause |-> e.msg.cause,
     str |-> TRUE,
     url |-> e.url,
     status |-> e.status_code,
     retries |-> e.retries]

----------------------------------------------------------------------------
\* CustomerAPIClient.__init__

\* the backoff argument; <<>> stands for None and for the empty tuple
BackoffArgs == {<<>>, <<3>>}

\* self.backoff = backoff or self.DEFAULT_BACKOFF
InitBackoff(arg) == IF arg # <<>> THEN arg ELSE DEFAULT_BACKOFF

NoResult == [returned |-> FALSE, value |-> <<>>]
Returned(v) == [returned |-> TRUE, value |-> v]

\* process_customers has not been called
ProcessorIdle ==
    /\ raw_customers = <<>>
    /\ cursor = 0
    /\ seen = <<>>
    /\ processed = NoResult
    /\ proc_exc = NoException
    /\ proc_pc = "idle"
    /\ seed = 0
    /\ rng = 0

\* the dict built at lines 62-66
Report(total, timestamp, counts) ==
    [total_customers |-> total, export_timestamp |-> timestamp,
     data_quality_summary |-> counts]

\* line 56
ZeroCounts == [high_quality |-> 0, medium_quality |-> 0, low_quality |-> 0]

EmptyReport == Report(0, "", ZeroCounts)

\* a list argument, or None
PyList(items) == [is_none |-> FALSE, items |-> items]
PyNone == [is_none |-> TRUE, items |-> <<>>]

\* an exception of the exporter
NoExportException == [type |-> "None", text |-> "", path |-> "", cause |-> ""]

\* the file at output_file: absent, or holding what an earlier run wrote
\* ("old"), or opened for writing and left incomplete ("partial"), or holding
\* the payload ("written")
File(state, metadata, customerList) ==
    [state |-> state, metadata |-> metadata, customers |-> customerList]

NoFile == File("absent", EmptyReport, <<>>)
OldFile == File("old", EmptyReport, <<>>)

\* neither export_customers nor generate_summary_report has been called
ExporterIdle ==
    /\ customers = PyList(<<>>)
    /\ output \in {NoFile, OldFile}
    /\ export_exc = NoExportException
    /\ exp_pc = "idle"
    /\ report = EmptyReport

\* run_pipeline has not been called
PipelineIdle ==
    /\ stage = "idle"
    /\ caught = "none"

\* The count of the GETs issued by session.get (line 78).  The GETs of the
\* pages already fetched are no longer in `gets`; they are counted where the
\* count is asked for, and left uncounted elsewhere.
Counted(n) == [counting |-> TRUE, n |-> n]
Uncounted == [counting |-> FALSE, n |-> 0]

\* one more GET
Issue(count) == IF count.counting THEN Counted(count.n + 1) ELSE count

\* the client after CustomerAPIClient(max_retries=mr, backoff=arg)
Constructed(mr, arg) ==
    /\ max_retries = mr
    /\ backoff = InitBackoff(arg)
    /\ pc = "init"
    /\ page = 0
    /\ attempt = 0
    /\ last_exc = NoException
    /\ gets = <<>>
    /\ sleeps = <<>>
    /\ ret = InvalidBody
    /\ exc = NoException
    /\ data = <<>>
    /\ total_pages = 0
    /\ pagesFetched = <<>>
    /\ served = <<>>
    /\ firstTotalPages = JMissing
    /\ result = NoResult
    /\ err = NoException

Init ==
    /\ \E mr \in 0..MaxRetries, arg \in BackoffArgs : Constructed(mr, arg)
    /\ issued = Uncounted
    /\ ProcessorIdle
    /\ output = NoFile
    /\ ExporterIdle
    /\ PipelineIdle

----------------------------------------------------------------------------
\* CustomerAPIClient._sleep_for_attempt and time.sleep

\* SleepForAttemptWait with the attempt number itself as the index
SleepForAttemptWait_IndexOffByOne(k) ==
    LET idx == Min(k, Len(backoff) - 1)
    IN  PyIndex(backoff, idx)

\* SleepForAttemptWait with every index clamped to the first entry
SleepForAttemptWait_AlwaysFirstEntry(k) ==
    LET idx == Min(0, Len(backoff) - 1)
    IN  PyIndex(backoff, idx)

\* the wait _sleep_for_attempt(attempt) passes to time.sleep
SleepForAttemptWait(k) ==
    LET idx == Min(k - 1, Len(backoff) - 1)
    IN  PyIndex(backoff, idx)

\* time.sleep(wait) raises ValueError for a negative wait and sleeps otherwise
SleepRaises(wait) == wait < 0

SleepError == ValueError("sleep length must be non-negative")

\* the wait of the 429 branch: int(Retry-After) when the header is a non-empty
\* string that int() accepts, the backoff entry of this attempt otherwise
RetryAfterWait(retry_after, k) ==
    IF retry_after.present /\ retry_after.text # <<>>
    THEN IF PyIntOfStr(retry_after.text).ok
         THEN PyIntOfStr(retry_after.text).v
         ELSE PyIndex(backoff, Min(k - 1, Len(backoff) - 1))
    ELSE SleepForAttemptWait(k)

----------------------------------------------------------------------------
\* CustomerAPIClient._request: one action per branch of the loop body.

\* InLoop with range(1, max_retries + 2)
InLoop_OneMoreAttempt == pc = "request" /\ attempt <= max_retries + 1

\* for attempt in range(1, self.max_retries + 1)
InLoop == pc = "request" /\ attempt <= max_retries

\* the exception leaves _request
Raise(e) == pc' = "req_raised" /\ exc' = e

\* time.sleep(wait), then `continue` with last_exc = e.  (Line 80 assigns
\* last_exc before the sleep and lines 116, 130, 155 after it; last_exc is a
\* local that is only read once the loop is over, so the order is not visible.)
SleepThenContinue(wait, e) ==
    IF SleepRaises(wait)
    THEN /\ Raise(SleepError)
         /\ UNCHANGED <<sleeps, last_exc, attempt>>
    ELSE /\ sleeps' = Append(sleeps, wait)
         /\ last_exc' = e
         /\ attempt' = attempt + 1
         /\ UNCHANGED <<pc, exc>>

ClientFrame == UNCHANGED <<max_retries, backoff, page, data, total_pages,
                           pagesFetched, result, err, procVars, expVars,
                           pipeVars>>

\* lines 78-85: session.get raises requests.RequestException
TransportFailure(resp) ==
    /\ InLoop
    /\ resp.kind = "exc"
    /\ gets' = Append(gets, resp)
    /\ issued' = Issue(issued)
    /\ SleepThenContinue(SleepForAttemptWait(attempt), RequestException)
    /\ UNCHANGED <<ret, served, firstTotalPages>>
    /\ ClientFrame

\* Status200 with an unparseable body treated like a retryable outcome
Status200_RetriesInvalidJson(resp) ==
    /\ InLoop
    /\ resp.kind = "http"
    /\ resp.status_code = 200
    /\ gets' = Append(gets, resp)
    /\ issued' = Issue(issued)
    /\ IF resp.json.valid
       THEN /\ pc' = "req_returned"
            /\ ret' = resp.json
            /\ served' = Append(served, resp.json.data)
            /\ firstTotalPages' = IF page = 1 THEN resp.json.total_pages
                                               ELSE firstTotalPages
            /\ UNCHANGED <<exc, sleeps, last_exc, attempt>>
       ELSE /\ SleepThenContinue(
                   SleepForAttemptWait(attempt),
                   APIClientError(Msg("Invalid JSON from", 0, ""), URL,
                                  resp.status_code, attempt))
            /\ UNCHANGED <<ret, served, firstTotalPages>>
    /\ ClientFrame

\* lines 88-97: status 200; resp.json() returns the body or raises ValueError
Status200(resp) ==
    /\ InLoop
    /\ resp.kind = "http"
    /\ resp.status_code = 200
    /\ gets' = Append(gets, resp)
    /\ issued' = Issue(issued)
    /\ IF resp.json.valid
       THEN /\ pc' = "req_returned"
            /\ ret' = resp.json
            /\ served' = Append(served, resp.json.data)
            /\ firstTotalPages' = IF page = 1 THEN resp.json.total_pages
                                               ELSE firstTotalPages
            /\ UNCHANGED exc
       ELSE /\ Raise(APIClientError(Msg("Invalid JSON from", 0, ""), URL,
                                    resp.status_code, attempt))
            /\ UNCHANGED <<ret, served, firstTotalPages>>
    /\ UNCHANGED <<sleeps, last_exc, attempt>>
    /\ ClientFrame

\* lines 100-119: status 429
Status429(resp) ==
    /\ InLoop
    /\ resp.kind = "http"
    /\ resp.status_code # 200
    /\ resp.status_code = 429
    /\ gets' = Append(gets, resp)
    /\ issued' = Issue(issued)
    /\ SleepThenContinue(
           RetryAfterWait(resp.retry_after, attempt),
           APIClientError(Msg("429 Too Many Requests", 0, ""), URL, 429, attempt))
    /\ UNCHANGED <<ret, served, firstTotalPages>>
    /\ ClientFrame

\* lines 122-136: status 5xx
Status5xx(resp) ==
    /\ InLoop
    /\ resp.kind = "http"
    /\ resp.status_code \notin {200, 429}
    /\ 500 <= resp.status_code /\ resp.status_code < 600
    /\ gets' = Append(gets, resp)
    /\ issued' = Issue(issued)
    /\ SleepThenContinue(
           SleepForAttemptWait(attempt),
           APIClientError(Msg("server error", resp.status_code, ""), URL,
                          resp.status_code, attempt))
    /\ UNCHANGED <<ret, served, firstTotalPages>>
    /\ ClientFrame

\* Status4xx with the client error retried like a server error
Status4xx_Retried(resp) ==
    /\ InLoop
    /\ resp.kind = "http"
    /\ resp.status_code \notin {200, 429}
    /\ ~(500 <= resp.status_code /\ resp.status_code < 600)
    /\ 400 <= resp.status_code /\ resp.status_code < 500
    /\ gets' = Append(gets, resp)
    /\ issued' = Issue(issued)
    /\ SleepThenContinue(
           SleepForAttemptWait(attempt),
           APIClientError(Msg("Client error", resp.status_code, ""), URL,
                          resp.status_code, attempt))
    /\ UNCHANGED <<ret, served, firstTotalPages>>
    /\ ClientFrame

\* lines 139-145: any other status 4xx
Status4xx(resp) ==
    /\ InLoop
    /\ resp.kind = "http"
    /\ resp.status_code \notin {200, 429}
    /\ ~(500 <= resp.status_code /\ resp.status_code < 600)
    /\ 400 <= resp.status_code /\ resp.status_code < 500
    /\ gets' = Append(gets, resp)
    /\ issued' = Issue(issued)
    /\ Raise(APIClientError(Msg("Client error", resp.status_code, ""), URL,
                            resp.status_code, attempt))
    /\ UNCHANGED <<sleeps, last_exc, attempt, ret, served, firstTotalPages>>
    /\ ClientFrame

\* StatusUnexpected with the unexpected status raised at once
StatusUnexpected_Raised(resp) ==
    /\ InLoop
    /\ resp.kind = "http"
    /\ resp.status_code \notin {200, 429}
    /\ ~(500 <= resp.status_code /\ resp.status_code < 600)
    /\ ~(400 <= resp.status_code /\ resp.status_code < 500)
    /\ gets' = Append(gets, resp)
    /\ issued' = Issue(issued)
    /\ Raise(APIClientError(Msg("Unexpected status", resp.status_code, ""), URL,
                            resp.status_code, attempt))
    /\ UNCHANGED <<sleeps, last_exc, attempt, ret, served, firstTotalPages>>
    /\ ClientFrame

\* lines 148-160: any other status
StatusUnexpected(resp) ==
    /\ InLoop
    /\ resp.kind = "http"
    /\ resp.status_code \notin {200, 429}
    /\ ~(500 <= resp.status_code /\ resp.status_code < 600)
    /\ ~(400 <= resp.status_code /\ resp.status_code < 500)
    /\ gets' = Append(gets, resp)
    /\ issued' = Issue(issued)
    /\ SleepThenContinue(
           SleepForAttemptWait(attempt),
           APIClientError(Msg("Unexpected status", resp.status_code, ""), URL,
                          resp.status_code, attempt))
    /\ UNCHANGED <<ret, served, firstTotalPages>>
    /\ ClientFrame

\* lines 163-180: the error raised once the loop has run out of attempts
ExhaustedError ==
    IF last_exc.type = "APIClientError"
    THEN APIClientError(Str(last_exc), last_exc.url, last_exc.status_code,
                        max_retries)
    ELSE IF last_exc.type # "None"
    THEN APIClientError(Msg("Failed to fetch after attempts", max_retries,
                            last_exc.msg.text),
                        URL, NoStatus, max_retries)
    ELSE APIClientError(Msg("Failed to fetch after attempts", max_retries, ""),
                        URL, NoStatus, max_retries)

Exhausted ==
    /\ pc = "request"
    /\ attempt > max_retries
    /\ Raise(ExhaustedError)
    /\ UNCHANGED <<gets, sleeps, last_exc, attempt, ret, served,
                   firstTotalPages, issued>>
    /\ ClientFrame

----------------------------------------------------------------------------
\* CustomerAPIClient._fetch_page and fetch_all_customers

\* _fetch_page(p): _request(url, params={"page": p}) starts its loop
FetchPage(p) ==
    /\ page' = p
    /\ pagesFetched' = Append(pagesFetched, p)
    /\ attempt' = 1
    /\ last_exc' = NoException
    /\ gets' = <<>>
    /\ sleeps' = <<>>
    /\ ret' = InvalidBody
    /\ pc' = "request"

\* list(body.get("data") or [])
DataList(body) == IF body.data.t = "list" THEN body.data.l ELSE <<>>

\* int(first.get("total_pages") or 1)
TotalPagesOf(body) ==
    IF PyTruthy(body.total_pages) THEN PyInt(body.total_pages)
                                  ELSE [ok |-> TRUE, v |-> 1]

\* Extend with the page put in front of the accumulated records
Extend_Prepends(acc, page_data) == page_data \o acc

\* data.extend(page_data)
Extend(acc, page_data) == acc \o page_data

\* the locals of a _request that has returned are gone
RequestOver ==
    /\ attempt' = 0
    /\ last_exc' = NoException
    /\ gets' = <<>>
    /\ sleeps' = <<>>
    /\ ret' = InvalidBody

\* LoopStep with the number of pages read again from the page just returned
LoopStep_RereadsTotalPages(p, tp, d) ==
    IF p + 1 <= (IF TotalPagesOf(ret).ok THEN TotalPagesOf(ret).v ELSE tp)
    THEN /\ FetchPage(p + 1)
         /\ UNCHANGED result
    ELSE /\ RequestOver
         /\ result' = Returned(d)
         /\ pc' = "done"
         /\ UNCHANGED <<page, pagesFetched>>

\* lines 210-217: after page p the loop over range(2, total_pages + 1) either
\* fetches page p + 1 or is over, and then the accumulated list d is returned
LoopStep(p, tp, d) ==
    IF p + 1 <= tp
    THEN /\ FetchPage(p + 1)
         /\ UNCHANGED result
    ELSE /\ RequestOver
         /\ result' = Returned(d)
         /\ pc' = "done"
         /\ UNCHANGED <<page, pagesFetched>>

\* line 202: the call of fetch_all_customers reaches _fetch_page(1)
FetchAllCustomers ==
    /\ pc = "init"
    /\ FetchPage(1)
    /\ UNCHANGED <<max_retries, backoff, exc, data, total_pages, served,
                   firstTotalPages, result, err, procVars, expVars, pipeVars, issued>>

\* lines 203-217 for total_pages < 2, lines 203-211 otherwise: the first page
\* has been returned
FirstPage ==
    /\ pc = "req_returned"
    /\ page = 1
    /\ data' = DataList(ret)
    /\ IF TotalPagesOf(ret).ok
       THEN /\ total_pages' = TotalPagesOf(ret).v
            /\ LoopStep(1, TotalPagesOf(ret).v, DataList(ret))
            /\ UNCHANGED err
       ELSE /\ RequestOver
            /\ pc' = "raised"
            /\ err' = ValueError("invalid literal for int()")
            /\ UNCHANGED <<total_pages, page, pagesFetched, result>>
    /\ UNCHANGED <<max_retries, backoff, exc, served, firstTotalPages,
                   procVars, expVars, pipeVars, issued>>

\* lines 212-217 for the last page, lines 212-214 and 210-211 otherwise: a
\* later page has been returned
NextPage ==
    /\ pc = "req_returned"
    /\ page >= 2
    /\ data' = Extend(data, DataList(ret))
    /\ LoopStep(page, total_pages, Extend(data, DataList(ret)))
    /\ UNCHANGED <<max_retries, backoff, exc, total_pages, served,
                   firstTotalPages, err, procVars, expVars, pipeVars, issued>>

\* Propagate with the exception swallowed and the records accumulated so far
\* returned
Propagate_ReturnsPartial ==
    /\ pc = "req_raised"
    /\ result' = Returned(data)
    /\ pc' = "done"
    /\ UNCHANGED <<max_retries, backoff, page, attempt, last_exc, gets, sleeps,
                   ret, exc, data, total_pages, pagesFetched, served,
                   firstTotalPages, err, procVars, expVars, pipeVars, issued>>

\* what fetch_all_customers does with an exception of _fetch_page: there is no
\* handler at lines 202 and 211, so it leaves fetch_all_customers as it is and
\* nothing is returned
Propagated(e) == e

Propagate ==
    /\ pc = "req_raised"
    /\ err' = Propagated(exc)
    /\ pc' = "raised"
    /\ UNCHANGED <<max_retries, backoff, page, attempt, last_exc, gets, sleeps,
                   ret, exc, data, total_pages, pagesFetched, served,
                   firstTotalPages, result, procVars, expVars, pipeVars, issued>>

Next ==
    \/ FetchAllCustomers
    \/ \E resp \in Responses : TransportFailure(resp)
    \/ \E resp \in Responses : Status200(resp)
    \/ \E resp \in Responses : Status429(resp)
    \/ \E resp \in Responses : Status5xx(resp)
    \/ \E resp \in Responses : Status4xx(resp)
    \/ \E resp \in Responses : StatusUnexpected(resp)
    \/ Exhausted
    \/ FirstPage
    \/ NextPage
    \/ Propagate

Spec == Init /\ [][Next]_vars

----------------------------------------------------------------------------
\* Vocabulary of the properties.

IsTransport(r)  == r.kind = "exc"
Is200(r)        == r.kind = "http" /\ r.status_code = 200
IsOk200(r)      == Is200(r) /\ r.json.valid
IsBad200(r)     == Is200(r) /\ ~r.json.valid
Is429(r)        == r.kind = "http" /\ r.status_code = 429
Is5xx(r)        == r.kind = "http" /\ r.status_code \in 500..599
IsClient4xx(r)  == r.kind = "http" /\ r.status_code \in 400..499 /\ r.status_code # 429
IsUnexpected(r) ==
    r.kind = "http" /\ r.status_code \notin ({200} \cup (400..599))

\* the backoff-table wait of attempt k, as the specification words it
TableWait(k) == backoff[Min(k - 1, Len(backoff) - 1) + 1]

RequestRaised == pc \in {"req_raised", "raised"} /\ exc.type # "None"

----------------------------------------------------------------------------
\* C1: for every k < max_retries, when the first k responses of a _request are
\* HTTP 5xx and response k+1 is HTTP 200 with a parseable body, _request
\* returns that body after exactly k+1 GETs and exactly k waits, the i-th wait
\* being backoff[min(i-1, len(backoff)-1)]; with the default table and k = 2
\* the waits are 1 then 2.
C1_ServerErrorsThenSuccess ==
    \A k \in 0..(max_retries - 1) :
        ( /\ Len(gets) >= k + 1
          /\ \A i \in 1..k : Is5xx(gets[i])
          /\ IsOk200(gets[k + 1]) )
        => /\ pc = "req_returned"
           /\ ret = gets[k + 1].json
           /\ Len(gets) = k + 1
           /\ Len(sleeps) = k
           /\ \A i \in 1..k : sleeps[i] = TableWait(i)
           /\ (backoff = <<1, 2, 4>> /\ k = 2 => sleeps = <<1, 2>>)

C1_Witness ==
    /\ pc = "req_returned"
    /\ backoff = DEFAULT_BACKOFF
    /\ Len(gets) = 3
    /\ Is5xx(gets[1]) /\ Is5xx(gets[2]) /\ IsOk200(gets[3])
    /\ ret = gets[3].json
    /\ sleeps = <<1, 2>>

\* C2: when an attempt of _request receives a 4xx status other than 429,
\* _request raises APIClientError at that attempt: no wait follows it, no
\* further GET is issued, and the error carries the url, that status code and
\* the attempt number as retries.
C2_ClientErrorIsTerminal ==
    \A i \in 1..Len(gets) :
        IsClient4xx(gets[i])
        => /\ i = Len(gets)
           /\ Len(sleeps) = i - 1
           /\ RequestRaised
           /\ exc.type = "APIClientError"
           /\ exc.url = URL
           /\ exc.status_code = gets[i].status_code
           /\ exc.retries = i
           /\ exc.retries >= 1
           /\ ~(pc = "request" /\ attempt <= max_retries)

C2_Witness ==
    /\ pc = "raised"
    /\ Len(gets) = 1
    /\ gets[1].kind = "http" /\ gets[1].status_code = 404
    /\ max_retries = DEFAULT_MAX_RETRIES
    /\ sleeps = <<>>
    /\ err.type = "APIClientError" /\ err.status_code = 404 /\ err.retries = 1

\* C6: when attempt k of _request receives HTTP 200 whose body is not JSON,
\* _request raises APIClientError at once with status_code 200, the url and
\* retries = k; no wait follows and no further GET is issued, also for
\* k < max_retries.
C6_InvalidJsonIsTerminal ==
    \A k \in 1..Len(gets) :
        IsBad200(gets[k])
        => /\ k = Len(gets)
           /\ Len(sleeps) = k - 1
           /\ RequestRaised
           /\ exc.type = "APIClientError"
           /\ exc.status_code = 200
           /\ exc.url = URL
           /\ exc.retries = k
           /\ ~(pc = "request" /\ attempt <= max_retries)

C6_Witness ==
    /\ pc = "req_raised"
    /\ max_retries = DEFAULT_MAX_RETRIES
    /\ Len(gets) = 2
    /\ Is5xx(gets[1]) /\ IsBad200(gets[2])
    /\ Len(sleeps) = 1
    /\ exc.status_code = 200 /\ exc.retries = 2

\* C7: a transport failure or a status that is none of 200, 429, 4xx, 5xx on
\* attempt k is followed by the wait backoff[min(k-1, len(backoff)-1)]; for
\* k < max_retries _request then stands at the GET of attempt k+1, and an
\* error whose last outcome is of this kind is raised only after attempt
\* max_retries, as the exhausted-retries error.
C7_TransportAndUnexpectedAreRetried ==
    \A k \in 1..Len(gets) :
        (IsTransport(gets[k]) \/ IsUnexpected(gets[k]))
        => /\ Len(sleeps) >= k
           /\ sleeps[k] = TableWait(k)
           /\ (k < max_retries /\ k = Len(gets)
                 => pc = "request" /\ attempt = k + 1 /\ exc.type = "None")
           /\ (k = Len(gets) /\ pc # "request"
                 => /\ k = max_retries
                    /\ RequestRaised
                    /\ exc.type = "APIClientError"
                    /\ exc.retries = max_retries
                    /\ exc = ExhaustedError)

C7_Witness ==
    /\ pc = "request"
    /\ max_retries = DEFAULT_MAX_RETRIES
    /\ Len(gets) = 2
    /\ IsTransport(gets[1]) /\ IsUnexpected(gets[2])
    /\ attempt = 3
    /\ sleeps = <<TableWait(1), TableWait(2)>>

\* C3: when an attempt of _request receives HTTP 429 with a Retry-After
\* header that parses as an integer n, the wait performed after it is exactly n
\* and not the backoff-table value; when the header is absent or does not
\* parse as an integer, the wait is backoff[min(attempt-1, len(backoff)-1)].
C3_RetryAfterDecidesTheWait ==
    \A k \in 1..Len(gets) :
        Is429(gets[k])
        => LET h == gets[k].retry_after
               n == PyIntOfStr(h.text)
           IN  /\ Len(sleeps) >= k
               /\ sleeps[k] = IF h.present /\ n.ok THEN n.v ELSE TableWait(k)

\* C4: an HTTP 429 is always retried: for every attempt k < max_retries that
\* receives 429, whatever its Retry-After header, _request performs a wait and
\* then stands at the GET of attempt k+1 instead of failing at attempt k.
C4_RateLimitIsAlwaysRetried ==
    \A k \in 1..Len(gets) :
        (Is429(gets[k]) /\ k < max_retries)
        => /\ Len(sleeps) >= k
           /\ (k = Len(gets)
                 => pc = "request" /\ attempt = k + 1 /\ exc.type = "None")

IsRetryable(r) == IsTransport(r) \/ Is429(r) \/ Is5xx(r) \/ IsUnexpected(r)

\* the message text _request gives the outcome r
OutcomeText(r) ==
    CASE IsTransport(r)  -> "Failed to fetch after attempts"
      [] Is429(r)        -> "429 Too Many Requests"
      [] Is5xx(r)        -> "server error"
      [] IsUnexpected(r) -> "Unexpected status"

\* C5: when every attempt of a _request ends in a retryable outcome (transport
\* failure, 429, 5xx, unexpected status), _request fails only after exactly
\* max_retries GETs, with an APIClientError whose retries is max_retries, whose
\* url is the requested url and whose message and status code are those of the
\* last outcome; with no outcome at all the message is the generic one.
C5_ExhaustedRetriesError ==
    ( /\ pc \in {"req_returned", "req_raised", "raised"}
      /\ ~(pc = "raised" /\ exc.type = "None")
      /\ \A i \in 1..Len(gets) : IsRetryable(gets[i]) )
    => /\ RequestRaised
       /\ Len(gets) = max_retries
       /\ Len(sleeps) = max_retries
       /\ exc.type = "APIClientError"
       /\ exc.retries = max_retries
       /\ exc.url = URL
       /\ IF gets = <<>>
          THEN exc.msg = Msg("Failed to fetch after attempts", max_retries, "")
               /\ exc.status_code = NoStatus
          ELSE LET last == gets[Len(gets)]
               IN  /\ exc.msg.text = OutcomeText(last)
                   /\ exc.status_code = last.status_code
                   /\ IsTransport(last) => exc.msg.cause # ""
                   /\ ~IsTransport(last) =>
                          /\ exc.msg.str
                          /\ exc.msg.status = last.status_code
                          /\ exc.msg.retries = max_retries

RECURSIVE ConcatLists(_)
ConcatLists(fields) ==
    IF fields = <<>> THEN <<>>
    ELSE (IF Head(fields).t = "list" THEN Head(fields).l ELSE <<>>)
             \o ConcatLists(Tail(fields))

RECURSIVE SumOfLengths(_)
SumOfLengths(fields) ==
    IF fields = <<>> THEN 0
    ELSE (IF Head(fields).t = "list" THEN Len(Head(fields).l) ELSE 0)
             + SumOfLengths(Tail(fields))

\* C8: fetch_all_customers requests pages 1, 2, ... in that order, page p+1
\* only after page p was returned; when every page fetch succeeds it has
\* requested exactly the pages 1..total_pages and returns the concatenation of
\* the pages' data lists in page order and within-page order, duplicates
\* kept, so the length of the result is the sum of the page lengths.
C8_AllPagesInOrder ==
    /\ pagesFetched = [i \in 1..Len(pagesFetched) |-> i]
    /\ pc = "request" => page = Len(pagesFetched) /\ Len(served) = page - 1
    /\ pc = "done" =>
          /\ result.returned
          /\ Len(served) = Len(pagesFetched)
          /\ Len(pagesFetched) = (IF total_pages >= 1 THEN total_pages ELSE 1)
          /\ (firstTotalPages.t = "int" /\ firstTotalPages.n >= 1
                => Len(pagesFetched) = firstTotalPages.n)
          /\ result.value = ConcatLists(served)
          /\ Len(result.value) = SumOfLengths(served)

C8_Witness ==
    /\ pc = "done"
    /\ pagesFetched = <<1, 2>>
    /\ served = <<DList(<<2, 1>>), DList(<<1, 1>>)>>
    /\ result = Returned(<<2, 1, 1, 1>>)

\* the total_pages field is missing, null or not numeric
NotNumeric(j) ==
    \/ j.t \in {"missing", "null"}
    \/ j.t = "str" /\ ~PyIntOfStr(j.s).ok

\* C9: when page 1's total_pages field is missing, null or non-numeric,
\* fetch_all_customers treats it as 1: it fetches exactly one page and returns
\* page 1's data list (the empty list when data is absent), without raising.
C9_BadTotalPagesMeansOnePage ==
    (Len(served) >= 1 /\ NotNumeric(firstTotalPages))
    => /\ pc \in {"req_returned", "done"}
       /\ err.type = "None"
       /\ pagesFetched = <<1>>
       /\ pc = "done" => result = Returned(ConcatLists(<<served[1]>>))

\* C10: when the _request of a page p raises, fetch_all_customers raises that
\* exception unchanged, returns nothing (no partial list of the records of
\* pages 1..p-1) and requests no page after p.
C10_PageFailureAbortsTheFetch ==
    exc.type # "None"
    => /\ pc \in {"req_raised", "raised"}
       /\ ~result.returned
       /\ pagesFetched = [i \in 1..page |-> i]
       /\ pc = "raised" => err = exc /\ ~ENABLED Next

C10_Witness ==
    /\ pc = "raised"
    /\ page = 2
    /\ data # <<>>
    /\ err.type = "APIClientError"
    /\ err = exc
    /\ result = NoResult

----------------------------------------------------------------------------
\* Text, continued: letters, their case and their order.

Lowers ==
    <<"a", "b", "c", "d", "e", "f", "g", "h", "i", "j", "k", "l", "m",
       "n", "o", "p", "q", "r", "s", "t", "u", "v", "w", "x", "y", "z">>

Uppers ==
    <<"A", "B", "C", "D", "E", "F", "G", "H", "I", "J", "K", "L", "M",
       "N", "O", "P", "Q", "R", "S", "T", "U", "V", "W", "X", "Y", "Z">>

Letters == {Lowers[i] : i \in 1..Len(Lowers)} \cup {Uppers[i] : i \in 1..Len(Uppers)}

\* str.lower()
LowerChar(c) ==
    IF \E i \in 1..Len(Uppers) : Uppers[i] = c
    THEN Lowers[CHOOSE i \in 1..Len(Uppers) : Uppers[i] = c]
    ELSE c

Lower(s) == [i \in 1..Len(s) |-> LowerChar(s[i])]

\* the characters of the texts below, in the order of their code points
CodePoints ==
    <<" ", "-", ".", "0", "1", "2", "3", "4", "5", "6", "7", "8", "9",
       "@", "A", "B", "C", "D", "E", "F", "G", "H", "I", "J", "K", "L",
       "M", "N", "O", "P", "Q", "R", "S", "T", "U", "V", "W", "X", "Y",
       "Z", "_", "a", "b", "c", "d", "e", "f", "g", "h", "i", "j", "k",
       "l", "m", "n", "o", "p", "q", "r", "s", "t", "u", "v", "w", "x",
       "y", "z">>

Ord(c) == CHOOSE i \in 1..Len(CodePoints) : CodePoints[i] = c

\* a < b  of two str: by the first character that differs, a proper prefix first
RECURSIVE StrLess(_, _)
StrLess(a, b) ==
    IF b = <<>> THEN FALSE
    ELSE IF a = <<>> THEN TRUE
    ELSE IF Head(a) = Head(b) THEN StrLess(Tail(a), Tail(b))
    ELSE Ord(Head(a)) < Ord(Head(b))

\* str.strip(); the blank is the only whitespace of the texts below
Strip(s) == StripRight(StripLeft(s))

----------------------------------------------------------------------------
\* CustomerDataProcessor: class constants and records.

ENGAGEMENT_LEVELS == <<"high", "medium", "low">>
ACTIVITY_STATUSES == <<"active", "inactive">>
ACQUISITION_CHANNELS == <<"website", "mobile_app", "email_campaign">>
MARKET_SEGMENTS == <<"US-West", "US-East", "EU-Central", "APAC">>
CUSTOMER_TIERS == <<"basic", "premium", "enterprise">>

\* the literals "unknown" (line 95) and "Unknown" (line 66)
UnknownDomain == <<"u", "n", "k", "n", "o", "w", "n">>
UnknownName == <<"U", "n", "k", "n", "o", "w", "n">>

\* a raw record: each key is absent (JMissing), null (JNull) or holds a value
RawCustomer(id, first_name, last_name, email) ==
    [id |-> id, first_name |-> first_name, last_name |-> last_name,
     email |-> email]

\* the dict built at lines 79-89
Customer(customer_id, full_name, email_domain, engagement_level, activity_status, acquisition_channel, market_segment, customer_tier, data_quality_score) ==
    [customer_id |-> customer_id,
     full_name |-> full_name,
     email_domain |-> email_domain,
     engagement_level |-> engagement_level,
     activity_status |-> activity_status,
     acquisition_channel |-> acquisition_channel,
     market_segment |-> market_segment,
     customer_tier |-> customer_tier,
     data_quality_score |-> data_quality_score]

NoCustomer == Customer(JNull, JNull, <<>>, "", "", "", "", "", JNull)

\* raised by None.strip()
AttributeError ==
    [type |-> "AttributeError",
     msg |-> Msg("'NoneType' object has no attribute 'strip'", 0, ""),
     url |-> "", status_code |-> NoStatus, retries |-> 0]

\* dict.get(key, default): the default for an absent key only
DictGet(value, default) == IF value.t = "missing" THEN default ELSE value

\* dict.get(key) with an absent key kept apart from a null value
DictGetNone_KeepsAbsentApart(value) == value

\* dict.get(key): None for an absent key
DictGetNone(value) == DictGet(value, JNull)

----------------------------------------------------------------------------
\* CustomerDataProcessor._extract_domain and _random_or_unknown

HostChars == Letters \cup Digits \cup {".", "-"}

\* [A-Za-z0-9.-]+\.[A-Za-z]{2,}  matches the whole of d
HostMatches(d) ==
    \E j \in 2..Len(d) :
        /\ d[j] = "."
        /\ \A i \in 1..(j - 1) : d[i] \in HostChars
        /\ Len(d) - j >= 2
        /\ \A i \in (j + 1)..Len(d) : d[i] \in Letters

\* the positions of the "@" at which  .+@(...)$  matches the whole of email
MatchAt(email) ==
    {k \in 2..Len(email) :
        email[k] = "@" /\ HostMatches(SubSeq(email, k + 1, Len(email)))}

\* match.group(1)
Group1(email) ==
    LET k == CHOOSE k \in MatchAt(email) : TRUE
    IN  SubSeq(email, k + 1, Len(email))

ExtractDomain(email) ==
    IF ~PyTruthy(email) \/ ~(\E i \in 1..Len(email.s) : email.s[i] = "@")
    THEN UnknownDomain
    ELSE IF MatchAt(email.s) # {} THEN Group1(email.s) ELSE UnknownDomain

\* random.choice(choices) when the generator is in state r
RandomChoice(choices, r) == choices[(r % Len(choices)) + 1]

RandomOrUnknown(choices, r) ==
    IF choices # <<>> THEN RandomChoice(choices, r) ELSE "unknown"

----------------------------------------------------------------------------
\* CustomerDataProcessor._transform_customer

FullName_JoinedUntrimmed(first_name, last_name) ==
    IF first_name # <<>> \/ last_name # <<>>
    THEN first_name \o <<" ">> \o last_name
    ELSE UnknownName

\* lines 63-67, of the two stripped name parts
FullName(first_name, last_name) ==
    IF first_name # <<>> \/ last_name # <<>>
    THEN Strip(first_name \o <<" ">> \o last_name)
    ELSE UnknownName

QualityScore_OneDeduction(email_domain, full_name) ==
    IF email_domain = <<>> \/ email_domain = UnknownDomain \/ full_name = UnknownName
    THEN 90 ELSE 100

\* lines 73-77
QualityScore(email_domain, full_name) ==
    100 - (IF email_domain = <<>> \/ email_domain = UnknownDomain THEN 10 ELSE 0)
        - (IF full_name = UnknownName THEN 10 ELSE 0)

\* The outcome of _transform_customer(raw) when the random generator is in
\* state r: the dict it returns, or the exception it raises.  A name that is
\* present and null is None, and None.strip() raises.
TransformCustomer(raw, r) ==
    LET customer_id == DictGetNone(raw.id)
        first       == DictGet(raw.first_name, JStr(<<>>))
        last        == DictGet(raw.last_name, JStr(<<>>))
    IN  IF first.t # "str" \/ last.t # "str"
        THEN [ok |-> FALSE, exc |-> AttributeError, customer |-> NoCustomer]
        ELSE LET first_name   == Strip(first.s)
                 last_name    == Strip(last.s)
                 full_name    == FullName(first_name, last_name)
                 email        == DictGet(raw.email, JStr(<<>>))
                 email_domain == ExtractDomain(email)
             IN  [ok |-> TRUE, exc |-> NoException,
                  customer |->
                      Customer(customer_id, JStr(full_name), email_domain,
                               RandomOrUnknown(ENGAGEMENT_LEVELS, r),
                               RandomOrUnknown(ACTIVITY_STATUSES, r + 1),
                               RandomOrUnknown(ACQUISITION_CHANNELS, r + 2),
                               RandomOrUnknown(MARKET_SEGMENTS, r + 3),
                               RandomOrUnknown(CUSTOMER_TIERS, r + 4),
                               JInt(QualityScore(email_domain, full_name)))]

\* the random draws of one call
DrawsPerCustomer == 5

----------------------------------------------------------------------------
\* CustomerDataProcessor.process_customers

\* the dict `seen` is the sequence of its values in insertion order; the key
\* of a value is its customer_id
KeyIndex(d, cid) == {i \in 1..Len(d) : d[i].customer_id = cid}

\* the second disjunct of the condition at lines 44-47
Replaces_OnTies(customer, kept) ==
    customer.data_quality_score.n >= kept.data_quality_score.n

Replaces(customer, kept) ==
    customer.data_quality_score.n > kept.data_quality_score.n

\* Store without the test of lines 44-47
Store_KeepsEveryRecord(d, customer) == Append(d, customer)

\* Store with a replaced key deleted and inserted anew, at the end
Store_ReplacedGoesLast(d, customer) ==
    LET at == KeyIndex(d, customer.customer_id)
    IN  IF at = {} THEN Append(d, customer)
        ELSE LET i == CHOOSE i \in at : TRUE
             IN  IF Replaces(customer, d[i])
                 THEN SubSeq(d, 1, i - 1) \o SubSeq(d, i + 1, Len(d)) \o <<customer>>
                 ELSE d

\* lines 44-48: an assignment to an existing key keeps the key's position
Store(d, customer) ==
    LET at == KeyIndex(d, customer.customer_id)
    IN  IF at = {} THEN Append(d, customer)
        ELSE LET i == CHOOSE i \in at : TRUE
             IN  IF Replaces(customer, d[i]) THEN [d EXCEPT ![i] = customer]
                 ELSE d

\* one iteration of the loop at lines 41-48
ProcessCustomersStep ==
    /\ proc_pc = "loop"
    /\ cursor <= Len(raw_customers)
    /\ LET t == TransformCustomer(raw_customers[cursor], rng)
       IN  IF t.ok
           THEN /\ seen' = Store(seen, t.customer)
                /\ cursor' = cursor + 1
                /\ rng' = rng + DrawsPerCustomer
                /\ UNCHANGED <<proc_pc, proc_exc>>
           ELSE /\ proc_pc' = "raised"
                /\ proc_exc' = t.exc
                /\ UNCHANGED <<seen, cursor, rng>>
    /\ UNCHANGED <<raw_customers, processed, seed, clientVars, expVars, pipeVars>>

\* lines 50-53
ProcessCustomersReturn ==
    /\ proc_pc = "loop"
    /\ cursor > Len(raw_customers)
    /\ processed' = Returned(seen)
    /\ proc_pc' = "returned"
    /\ UNCHANGED <<raw_customers, cursor, seen, proc_exc, seed, rng, clientVars,
                   expVars, pipeVars>>

\* process_customers(raws) is called when the generator is in state r
ProcessCustomersCalled(raws, r) ==
    /\ raw_customers = raws
    /\ cursor = 1
    /\ seen = <<>>
    /\ processed = NoResult
    /\ proc_exc = NoException
    /\ proc_pc = "loop"
    /\ seed = r
    /\ rng = r

----------------------------------------------------------------------------
\* Inputs of process_customers.

IdFields == {JMissing, JInt(1)}

FirstNameFields ==
    {JMissing,
     JNull,
     JStr(<<>>),
     JStr(<<" ">>),
     JStr(<<"A", "l">>),
     JStr(<<" ", "A", "l", " ">>),
     JStr(<<"a", "l">>),
     JStr(<<"U", "n", "k", "n", "o", "w", "n">>)}

LastNameFields ==
    {JMissing,
     JNull,
     JStr(<<>>),
     JStr(<<"B", "o">>),
     JStr(<<" ", "B", "o">>),
     JStr(<<"U", "n", "k", "n", "o", "w", "n">>)}

EmailFields ==
    {JMissing,
     JNull,
     JStr(<<>>),
     JStr(<<" ">>),
     JStr(<<"a", "b">>),
     JStr(<<"a", "@", "b", ".", "c", "o">>),
     JStr(<<"a", "@", "B", ".", "C", "O">>),
     JStr(<<"A", "@", "b", ".", "C", "o">>),
     JStr(<<"a", "@", "b", ".", "c">>),
     JStr(<<"@", "b", ".", "c", "o">>),
     JStr(<<"a", "@", "b", "@", "c", ".", "i", "o">>),
     JStr(<<"a", "@", ".", "c", "o">>),
     JStr(<<"a", "@", "b", "-", "1", ".", "i", "o">>),
     JStr(<<"a", "@", "b", ".", "c", "0">>),
     JStr(<<"a", "@", "b", ".", "c", "o", " ">>)}

\* every combination of the fields above, in lists of one record
FieldRecords ==
    {RawCustomer(id, f, l, e) : id \in IdFields, f \in FirstNameFields,
                                l \in LastNameFields, e \in EmailFields}

\* records that transform to the scores 100, 90, 90, 100, 90 and 80 under the
\* ids 1, 1, 1, 2, None and None, in lists of up to MaxRaw records
DuplicateRecords ==
    {RawCustomer(JInt(1), JStr(<<"A", "l">>), JStr(<<"B", "o">>), JStr(<<"a", "@", "b", ".", "c", "o">>)),
     RawCustomer(JInt(1), JStr(<<"A", "l">>), JMissing, JMissing),
     RawCustomer(JInt(1), JStr(<<"C", "y">>), JMissing, JStr(<<"a", "b">>)),
     RawCustomer(JInt(2), JStr(<<"A", "l">>), JStr(<<"B", "o">>), JStr(<<"a", "@", "B", ".", "C", "O">>)),
     RawCustomer(JMissing, JStr(<<"A", "l">>), JMissing, JMissing),
     RawCustomer(JNull, JMissing, JMissing, JMissing)}

ListsUpTo(S, n) == UNION {[1..k -> S] : k \in 0..n}

ProcessorInputs ==
    {<<raw>> : raw \in FieldRecords} \cup ListsUpTo(DuplicateRecords, MaxRaw)

\* process_customers is called on its own
ProcessorInit ==
    /\ Constructed(DEFAULT_MAX_RETRIES, <<>>)
    /\ issued = Uncounted
    /\ \E raws \in ProcessorInputs, r \in 0..MaxSeed :
           ProcessCustomersCalled(raws, r)
    /\ output = NoFile
    /\ ExporterIdle
    /\ PipelineIdle

ProcessorNext ==
    \/ ProcessCustomersStep
    \/ ProcessCustomersReturn

SpecProcessor == ProcessorInit /\ [][ProcessorNext]_vars

----------------------------------------------------------------------------
\* Vocabulary of the processor's properties.

\* the normalized record of the i-th raw record of the call
Transformed(i) ==
    TransformCustomer(raw_customers[i], seed + DrawsPerCustomer * (i - 1)).customer

ScoreOf(c) == c.data_quality_score.n

\* the positions of the raw records whose customer_id is cid
WithId(cid) ==
    {i \in 1..Len(raw_customers) : Transformed(i).customer_id = cid}

\* the first position, among those of the same customer_id, of the highest score
FirstBest(cid) ==
    CHOOSE i \in WithId(cid) :
        /\ \A k \in WithId(cid) : ScoreOf(Transformed(k)) <= ScoreOf(Transformed(i))
        /\ \A k \in WithId(cid) :
               ScoreOf(Transformed(k)) = ScoreOf(Transformed(i)) => i <= k

ProcessReturned == proc_pc = "returned" /\ processed.returned

----------------------------------------------------------------------------
\* C11: process_customers returns exactly one record per distinct customer_id
\* of its input, and the record kept for an id is the first one, in input
\* order, among that id's records of the highest data_quality_score.
C11_OnePerIdFirstBestKept ==
    ProcessReturned =>
        LET out == processed.value
            ids == {Transformed(i).customer_id : i \in 1..Len(raw_customers)}
        IN  /\ \A j \in 1..Len(out) : out[j].customer_id \in ids
            /\ \A cid \in ids :
                   Cardinality({j \in 1..Len(out) : out[j].customer_id = cid}) = 1
            /\ \A j \in 1..Len(out) :
                   out[j] = Transformed(FirstBest(out[j].customer_id))

\* three records of one id were processed: a lower score first, then two
\* different records that tie on the highest score
C11_Witness ==
    /\ ProcessReturned
    /\ \E i, j, k \in 1..Len(raw_customers) :
           /\ i < j /\ j < k
           /\ Transformed(i).customer_id = Transformed(j).customer_id
           /\ Transformed(j).customer_id = Transformed(k).customer_id
           /\ ScoreOf(Transformed(i)) < ScoreOf(Transformed(j))
           /\ ScoreOf(Transformed(j)) = ScoreOf(Transformed(k))
           /\ Transformed(j) # Transformed(k)
           /\ Transformed(j) \in {processed.value[n] : n \in 1..Len(processed.value)}

\* a name or an email that is absent, null, empty or blank
IsBlankField(f) == f.t # "str" \/ Strip(f.s) = <<>>

\* C12: process_customers never raises for a malformed raw record: whether
\* first_name, last_name and email are each absent, null, empty, blank or any
\* other string, it returns a normalized record, where two blank name parts
\* give the full_name "Unknown", a blank email gives the email_domain
\* "unknown", and each of the two takes 10 points off the score.
C12_MalformedRecordsNeverRaise ==
    /\ proc_pc # "raised"
    /\ (ProcessReturned /\ Len(raw_customers) = 1) =>
           LET raw == raw_customers[1]
               c   == processed.value[1]
               blankName  == IsBlankField(raw.first_name) /\ IsBlankField(raw.last_name)
               blankEmail == IsBlankField(raw.email)
           IN  /\ Len(processed.value) = 1
               /\ blankName => c.full_name = JStr(UnknownName)
               /\ blankEmail => c.email_domain = UnknownDomain
               /\ (blankName /\ blankEmail) => ScoreOf(c) = 80
               /\ (blankName /\ ~blankEmail) => ScoreOf(c) <= 90
               /\ (~blankName /\ blankEmail) => ScoreOf(c) <= 90

\* the email of a raw record as _transform_customer reads it
EmailOf(raw) == DictGet(raw.email, JStr(<<>>))

HasAt(text) == \E i \in 1..Len(text) : text[i] = "@"

\* the part of an email after its last "@"
DomainPart(text) ==
    LET k == CHOOSE k \in 1..Len(text) :
                 text[k] = "@" /\ \A i \in (k + 1)..Len(text) : text[i] # "@"
    IN  SubSeq(text, k + 1, Len(text))

\* C13: the data_quality_score of a normalized record is 100, less 10 when its
\* email_domain is "unknown", less 10 when its full_name is "Unknown", hence
\* one of 100, 90 and 80; and an email that is empty, has no "@", or whose
\* domain fails the host pattern gives the email_domain "unknown" and that
\* deduction.
C13_ScoreIsHundredLessDeductions ==
    ProcessReturned =>
        /\ \A j \in 1..Len(processed.value) :
               LET c == processed.value[j]
               IN  /\ ScoreOf(c) = 100
                                   - (IF c.email_domain = UnknownDomain THEN 10 ELSE 0)
                                   - (IF c.full_name = JStr(UnknownName) THEN 10 ELSE 0)
                   /\ ScoreOf(c) \in {100, 90, 80}
        /\ Len(raw_customers) = 1 =>
               LET email == EmailOf(raw_customers[1])
                   c     == processed.value[1]
               IN  (\/ ~PyTruthy(email)
                    \/ ~HasAt(email.s)
                    \/ ~HostMatches(DomainPart(email.s)))
                   => (c.email_domain = UnknownDomain /\ ScoreOf(c) <= 90)

\* a named record whose email has an "@" and a domain that fails the host
\* pattern was scored 90
C13_Witness ==
    /\ ProcessReturned
    /\ Len(raw_customers) = 1
    /\ LET email == EmailOf(raw_customers[1])
           c     == processed.value[1]
       IN  /\ PyTruthy(email)
           /\ HasAt(email.s)
           /\ ~HostMatches(DomainPart(email.s))
           /\ c.full_name # JStr(UnknownName)
           /\ ScoreOf(c) = 90

\* the name parts of a raw record as _transform_customer reads them, trimmed
FirstOf(raw) == Strip(DictGet(raw.first_name, JStr(<<>>)).s)
LastOf(raw) == Strip(DictGet(raw.last_name, JStr(<<>>)).s)

HasStringNames(raw) == raw.first_name.t # "null" /\ raw.last_name.t # "null"

\* the full_name is the trimmed parts joined by one blank, or the one part
\* that is not empty, and it neither starts nor ends with a blank
JoinedTrimmedParts(raw, full_name) ==
    /\ (FirstOf(raw) # <<>> /\ LastOf(raw) # <<>>)
           => full_name = FirstOf(raw) \o <<" ">> \o LastOf(raw)
    /\ (FirstOf(raw) # <<>> /\ LastOf(raw) = <<>>) => full_name = FirstOf(raw)
    /\ (FirstOf(raw) = <<>> /\ LastOf(raw) # <<>>) => full_name = LastOf(raw)
    /\ full_name # <<>>
    /\ full_name[1] # " "
    /\ full_name[Len(full_name)] # " "

\* C14 as stated: for string name parts the full_name is the trimmed first and
\* last names joined by one blank, without blanks around it, and it is
\* "Unknown" exactly when both parts trim to the empty string.
C14_UnknownExactlyWhenBothEmpty ==
    (ProcessReturned /\ Len(raw_customers) = 1 /\ HasStringNames(raw_customers[1])) =>
        LET raw       == raw_customers[1]
            full_name == processed.value[1].full_name.s
        IN  /\ JoinedTrimmedParts(raw, full_name)
            /\ full_name = UnknownName <=> (FirstOf(raw) = <<>> /\ LastOf(raw) = <<>>)

\* C14, amended: for string name parts the full_name is the trimmed first and
\* last names joined by one blank, without blanks around it; it is "Unknown"
\* whenever both parts trim to the empty string, and otherwise only when the
\* joined parts themselves spell "Unknown".
C14_FullNameIsJoinedTrimmedParts ==
    (ProcessReturned /\ Len(raw_customers) = 1 /\ HasStringNames(raw_customers[1])) =>
        LET raw       == raw_customers[1]
            full_name == processed.value[1].full_name.s
        IN  /\ JoinedTrimmedParts(raw, full_name)
            /\ (FirstOf(raw) = <<>> /\ LastOf(raw) = <<>>) => full_name = UnknownName
            /\ full_name = UnknownName =>
                   \/ FirstOf(raw) = <<>> /\ LastOf(raw) = <<>>
                   \/ FirstOf(raw) = UnknownName /\ LastOf(raw) = <<>>
                   \/ FirstOf(raw) = <<>> /\ LastOf(raw) = UnknownName

\* a first name with blanks around it and a last name with a blank before it
\* were joined
C14_Witness ==
    /\ ProcessReturned
    /\ Len(raw_customers) = 1
    /\ HasStringNames(raw_customers[1])
    /\ raw_customers[1].first_name.s # FirstOf(raw_customers[1])
    /\ raw_customers[1].last_name.s # LastOf(raw_customers[1])
    /\ LastOf(raw_customers[1]) # <<>>
    /\ processed.value[1].full_name.s
           = FirstOf(raw_customers[1]) \o <<" ">> \o LastOf(raw_customers[1])

\* C15: every normalized record returned by process_customers has an
\* email_domain that is "unknown" or a lowercase domain, whatever the case of
\* the letters of the input email's domain.
C15_EmailDomainIsLowercase ==
    ProcessReturned =>
        \A j \in 1..Len(processed.value) :
            LET email_domain == processed.value[j].email_domain
            IN  email_domain = UnknownDomain \/ email_domain = Lower(email_domain)

----------------------------------------------------------------------------
\* DataExporter._quality_bucket and generate_summary_report

\* QualityBucket with "high" from 100 on
QualityBucket_HighFrom100(score) ==
    IF score >= 100 THEN "high_quality"
    ELSE IF score >= 70 THEN "medium_quality"
    ELSE "low_quality"

QualityBucket_MediumFrom80(score) ==
    IF score >= 90 THEN "high_quality"
    ELSE IF score >= 80 THEN "medium_quality"
    ELSE "low_quality"

QualityBucket(score) ==
    IF score >= 90 THEN "high_quality"
    ELSE IF score >= 70 THEN "medium_quality"
    ELSE "low_quality"

\* c.get("data_quality_score", 0)
ScoreGet(c) == DictGet(c.data_quality_score, JInt(0)).n

\* the loop at lines 57-60 from `counts` on, over the customers cs
RECURSIVE CountBuckets(_, _)
CountBuckets(cs, counts) ==
    IF cs = <<>> THEN counts
    ELSE LET bucket == QualityBucket(ScoreGet(Head(cs)))
         IN  CountBuckets(Tail(cs), [counts EXCEPT ![bucket] = @ + 1])

\* the report of generate_summary_report(cs) at the clock reading timestamp
SummaryReport(cs, timestamp) ==
    Report(Len(cs), timestamp, CountBuckets(cs, ZeroCounts))

ExportError(text, path, cause) ==
    [type |-> "ExportError", text |-> text, path |-> path, cause |-> cause]

\* datetime.now(timezone.utc).isoformat()
ClockReadings == {"2026-01-01T00:00:00+00:00", "2026-01-01T00:00:01+00:00"}

\* generate_summary_report(customers), lines 47-67
GenerateSummaryReport(timestamp) ==
    /\ exp_pc = "summary"
    /\ IF customers.is_none
       THEN /\ export_exc' = ExportError("customers list is None", "", "")
            /\ exp_pc' = "summary_raised"
            /\ UNCHANGED report
       ELSE /\ report' = SummaryReport(customers.items, timestamp)
            /\ exp_pc' = "reported"
            /\ UNCHANGED export_exc
    /\ UNCHANGED <<customers, output, clientVars, procVars, pipeVars>>

----------------------------------------------------------------------------
\* DataExporter.export_customers

SortKey_CaseSensitive(c) ==
    IF PyTruthy(DictGetNone(c.full_name)) THEN c.full_name.s ELSE <<>>

\* sort_key, lines 82-84:  name = c.get("full_name") or "";  name.lower()
SortKey(c) ==
    Lower(IF PyTruthy(DictGetNone(c.full_name)) THEN c.full_name.s ELSE <<>>)

\* c put into the sorted list cs after every element whose key is not greater
RECURSIVE Insert(_, _)
Insert(cs, c) ==
    IF cs = <<>> THEN <<c>>
    ELSE IF StrLess(SortKey(c), SortKey(Head(cs))) THEN <<c>> \o cs
    ELSE <<Head(cs)>> \o Insert(Tail(cs), c)

\* sorted(customers, key=sort_key): a stable sort, ascending
RECURSIVE SortedFrom(_, _)
SortedFrom(done, cs) ==
    IF cs = <<>> THEN done ELSE SortedFrom(Insert(done, Head(cs)), Tail(cs))

Sorted(cs) == SortedFrom(<<>>, cs)

\* the path output_file, as it appears in messages
OutputFile == "output_file"

\* What the file system does to the calls of lines 94-100: whether the parent
\* directory exists, and which call fails, if any.
IoOutcomes == {"ok", "mkdir_fails", "open_fails", "write_fails"}

\* raised by Path.mkdir, Path.open or a write
OSError(cause) == [type |-> "OSError", text |-> cause, path |-> "", cause |-> ""]

\* export_customers(customers, output_file), lines 69-108.  The directory is
\* made only when it does not exist, and then no file was at output_file.
ExportCustomers(parent_exists, io, timestamp) ==
    /\ exp_pc = "export"
    /\ parent_exists \/ output.state = "absent"
    /\ io = "mkdir_fails" => ~parent_exists
    /\ IF customers.is_none
       THEN /\ export_exc' = ExportError("customers list is None", "", "")
            /\ exp_pc' = "export_raised"
            /\ UNCHANGED output
       ELSE LET sorted_customers == Sorted(customers.items)
                metadata == SummaryReport(sorted_customers, timestamp)
            IN  CASE io = "mkdir_fails" ->
                       \* lines 95-96 are outside the try of line 98
                       /\ export_exc' = OSError("mkdir failed")
                       /\ exp_pc' = "export_raised"
                       /\ UNCHANGED output
                  [] io = "open_fails" ->
                       /\ export_exc' = ExportError("Failed to write output file",
                                                    OutputFile, "open failed")
                       /\ exp_pc' = "export_raised"
                       /\ UNCHANGED output
                  [] io = "write_fails" ->
                       \* open("w") has truncated the file
                       /\ output' = File("partial", EmptyReport, <<>>)
                       /\ export_exc' = ExportError("Failed to write output file",
                                                    OutputFile, "write failed")
                       /\ exp_pc' = "export_raised"
                  [] io = "ok" ->
                       /\ output' = File("written", metadata, sorted_customers)
                       /\ exp_pc' = "exported"
                       /\ UNCHANGED export_exc
    /\ UNCHANGED <<customers, report, clientVars, procVars, pipeVars>>

----------------------------------------------------------------------------
\* Inputs of the exporter.

\* a processed customer of the given full_name and data_quality_score
ExportRecord(full_name, score) ==
    Customer(JInt(1), full_name, UnknownDomain, "high", "active", "website",
             "APAC", "basic", score)

\* names that are absent, null, empty, equal but for their case, and
\* different; scores on both sides of each bucket's bounds, and absent
ExportRecords ==
    {ExportRecord(JMissing, JInt(100)),
     ExportRecord(JNull, JInt(90)),
     ExportRecord(JStr(<<>>), JInt(89)),
     ExportRecord(JStr(<<"a", "l">>), JInt(70)),
     ExportRecord(JStr(<<"A", "l">>), JInt(69)),
     ExportRecord(JStr(<<"A", "L">>), JInt(0)),
     ExportRecord(JStr(<<"B", "o">>), JMissing),
     ExportRecord(JStr(<<"b", "o">>), JInt(80))}

ExporterInputs ==
    {PyNone} \cup {PyList(cs) : cs \in ListsUpTo(ExportRecords, MaxCustomers)}

\* export_customers or generate_summary_report is called on its own
ExporterInit ==
    /\ Constructed(DEFAULT_MAX_RETRIES, <<>>)
    /\ issued = Uncounted
    /\ ProcessorIdle
    /\ customers \in ExporterInputs
    /\ output \in {NoFile, OldFile}
    /\ export_exc = NoExportException
    /\ exp_pc \in {"export", "summary"}
    /\ report = EmptyReport
    /\ PipelineIdle

ExporterNext ==
    \/ \E parent_exists \in BOOLEAN, io \in IoOutcomes, timestamp \in ClockReadings :
           ExportCustomers(parent_exists, io, timestamp)
    \/ \E timestamp \in ClockReadings : GenerateSummaryReport(timestamp)

SpecExporter == ExporterInit /\ [][ExporterNext]_vars

----------------------------------------------------------------------------
\* Vocabulary of the exporter's properties.

Exported == exp_pc = "exported" /\ output.state = "written"

\* the lower-cased full_name of a customer, the empty text when it has none
NameKey(c) == IF c.full_name.t = "str" THEN Lower(c.full_name.s) ELSE <<>>

StrLessOrEqual(a, b) == a = b \/ StrLess(a, b)

\* the one-to-one maps from the positions of a list of n records onto themselves
Rearrangements(n) ==
    {f \in [1..n -> 1..n] : \A i, j \in 1..n : f[i] = f[j] => i = j}

ReadScore(c) == IF c.data_quality_score.t = "int" THEN c.data_quality_score.n ELSE 0

\* the number of the customers cs whose score is lo or more
ScoresFrom(cs, lo) == Cardinality({i \in 1..Len(cs) : ReadScore(cs[i]) >= lo})

\* the report r counts every customer of cs in the bucket of its score
CountsPartition(r, cs) ==
    LET counts == r.data_quality_summary
    IN  /\ counts.high_quality = ScoresFrom(cs, 90)
        /\ counts.medium_quality = ScoresFrom(cs, 70) - ScoresFrom(cs, 90)
        /\ counts.low_quality = Len(cs) - ScoresFrom(cs, 70)
        /\ counts.high_quality + counts.medium_quality + counts.low_quality
               = r.total_customers
        /\ r.total_customers = Len(cs)

Reported == exp_pc = "reported"

\* C17: generate_summary_report counts each customer in exactly one bucket,
\* high for a score of 90 or more, medium for 70 to 89, low below 70, so that
\* the three counts add up to total_customers, the number of customers; the
\* metadata of an exported file is such a report.
C17_BucketsPartitionTheCustomers ==
    /\ Reported => CountsPartition(report, customers.items)
    /\ Exported => CountsPartition(output.metadata, customers.items)

\* a report was made of customers with the scores 90, 70 and 69
C17_Witness ==
    /\ Reported
    /\ \E i, j, k \in 1..Len(customers.items) :
           /\ ReadScore(customers.items[i]) = 90
           /\ ReadScore(customers.items[j]) = 70
           /\ ReadScore(customers.items[k]) = 69
    /\ report.data_quality_summary
           = [high_quality |-> 1, medium_quality |-> 1, low_quality |-> 1]

\* export_customers raised while persisting the payload of a list
ExportIoFailed == exp_pc = "export_raised" /\ ~customers.is_none

\* C19: every I/O error while export_customers persists the payload, be it in
\* creating the parent directories, in opening the file or in writing it,
\* reaches the caller as an ExportError whose message has the target path and
\* the underlying cause; no exception of another type escapes.
C19_IoErrorsBecomeExportError ==
    ExportIoFailed =>
        /\ export_exc.type = "ExportError"
        /\ export_exc.path = OutputFile
        /\ export_exc.cause # ""

----------------------------------------------------------------------------
\* run_pipeline (src/src/main.py)

\* The raw records behind the numbers 1 and 2 of the pages.  The client never
\* looks into a record, so what the two records hold is drawn when
\* process_customers receives them.
PipelineRecords ==
    DuplicateRecords \cup {RawCustomer(JInt(2), JNull, JStr(<<"B", "o">>), JMissing)}

Catalogs == [{1, 2} -> PipelineRecords]

\* lines 35-36: processor.process_customers(raw_customers)
PipelineProcess(catalog, r) ==
    /\ stage = "fetch"
    /\ pc = "done"
    /\ result.returned
    /\ raw_customers' = [i \in 1..Len(result.value) |-> catalog[result.value[i]]]
    /\ cursor' = 1
    /\ seen' = <<>>
    /\ processed' = NoResult
    /\ proc_exc' = NoException
    /\ proc_pc' = "loop"
    /\ seed' = r
    /\ rng' = r
    /\ stage' = "process"
    /\ UNCHANGED <<clientVars, expVars, caught>>

\* lines 40-41: exporter.export_customers(processed_customers, output_file)
PipelineExport ==
    /\ stage = "process"
    /\ proc_pc = "returned"
    /\ customers' = PyList(processed.value)
    /\ exp_pc' = "export"
    /\ stage' = "export"
    /\ UNCHANGED <<output, export_exc, report, clientVars, procVars, caught>>

\* lines 44-45: exporter.generate_summary_report(processed_customers)
PipelineSummary ==
    /\ stage = "export"
    /\ exp_pc = "exported"
    /\ exp_pc' = "summary"
    /\ stage' = "summary"
    /\ UNCHANGED <<customers, output, export_exc, report, clientVars, procVars,
                   caught>>

\* the try block is over: run_pipeline returns
PipelineReturn ==
    /\ stage = "summary"
    /\ exp_pc = "reported"
    /\ stage' = "returned"
    /\ UNCHANGED <<clientVars, procVars, expVars, caught>>

\* the exception types of the program; each derives from Exception
ExceptionTypes ==
    {"APIClientError", "ExportError", "RequestException", "ValueError",
     "AttributeError", "OSError"}

\* ExceptClause without the clause of lines 51-52
ExceptClause_DomainErrorsOnly(t) ==
    CASE t = "APIClientError" -> "APIClientError"
      [] t = "ExportError"    -> "ExportError"
      [] OTHER                -> "uncaught"

\* the except clause of lines 47-52 that matches an exception of type t
ExceptClause(t) ==
    CASE t = "APIClientError"  -> "APIClientError"
      [] t = "ExportError"     -> "ExportError"
      [] t \in ExceptionTypes  -> "Exception"
      [] OTHER                 -> "uncaught"

\* the exception that left the step run_pipeline is at
StepRaised(t) ==
    \/ stage = "fetch" /\ pc = "raised" /\ t = err.type
    \/ stage = "process" /\ proc_pc = "raised" /\ t = proc_exc.type
    \/ stage = "export" /\ exp_pc = "export_raised" /\ t = export_exc.type

\* lines 47-52: the exception raised by a step is logged by the clause that
\* matches it and run_pipeline returns; one that no clause matches leaves
\* run_pipeline
PipelineExcept ==
    /\ \E t \in ExceptionTypes :
           /\ StepRaised(t)
           /\ caught' = ExceptClause(t)
           /\ stage' = IF ExceptClause(t) = "uncaught" THEN "raised" ELSE "returned"
    /\ UNCHANGED <<clientVars, procVars, expVars>>

\* run_pipeline has built its client with the default retries and backoff
PipelineInit ==
    /\ Constructed(DEFAULT_MAX_RETRIES, <<>>)
    /\ issued = Uncounted
    /\ ProcessorIdle
    /\ ExporterIdle
    /\ stage = "fetch"
    /\ caught = "none"

PipelineNext ==
    \/ Next
    \/ \E catalog \in Catalogs, r \in 0..MaxSeed : PipelineProcess(catalog, r)
    \/ ProcessorNext
    \/ PipelineExport
    \/ ExporterNext
    \/ PipelineSummary
    \/ PipelineReturn
    \/ PipelineExcept

SpecPipeline == PipelineInit /\ [][PipelineNext]_vars

----------------------------------------------------------------------------
\* Vocabulary of the pipeline's properties.

FetchFailed == pc = "raised"

\* fetch_all_customers returned, after a _request of every page it asked for
\* returned a body
FetchSucceeded ==
    /\ pc = "done"
    /\ result.returned
    /\ Len(served) = Len(pagesFetched)
    /\ \A i \in 1..Len(pagesFetched) : pagesFetched[i] = i

\* the file at output_file has been neither written nor truncated
FileUntouched == output \in {NoFile, OldFile}

\* C18: run_pipeline runs its steps in the order fetch, process, export,
\* summary; export_customers is called only after fetch_all_customers has
\* returned with every page fetched; and when the fetch of a page fails,
\* run_pipeline catches the error (an APIClientError by its own clause),
\* returns without raising, and the output file is neither written nor
\* truncated.
C18_StepsInOrderAndNoExportAfterFailedFetch ==
    /\ proc_pc # "idle" => FetchSucceeded
    /\ exp_pc # "idle" => (FetchSucceeded /\ proc_pc = "returned")
    /\ exp_pc \in {"summary", "reported"} => output.state = "written"
    /\ FetchFailed =>
           /\ proc_pc = "idle"
           /\ exp_pc = "idle"
           /\ FileUntouched
           /\ stage \in {"fetch", "returned"}
           /\ stage = "fetch" => ENABLED PipelineExcept
           /\ stage = "returned" => caught # "none"
           /\ (stage = "returned" /\ err.type = "APIClientError")
                  => caught = "APIClientError"

\* the fetch failed on its second page with an APIClientError, a file of an
\* earlier run being at output_file, and run_pipeline has returned
C18_Witness ==
    /\ FetchFailed
    /\ pagesFetched = <<1, 2>>
    /\ Len(served) = 1
    /\ err.type = "APIClientError"
    /\ output = OldFile
    /\ stage = "returned"
    /\ caught = "APIClientError"

\* the key of a raw record: its id, None when it has none
RawId(raw) == IF raw.id.t = "int" THEN raw.id ELSE JNull

\* run_pipeline has written the payload
PayloadWritten == stage \in {"export", "summary", "returned"} /\ output.state = "written"

\* C20: whatever pages were fetched, the payload that run_pipeline writes has
\* exactly one customer for each distinct id that occurs on a page, its
\* metadata.total_customers is the number of distinct ids, and its three
\* quality counts add up to that number.
C20_PayloadHasOneCustomerPerFetchedId ==
    PayloadWritten =>
        LET ids    == {RawId(raw_customers[i]) : i \in 1..Len(raw_customers)}
            out    == output.customers
            counts == output.metadata.data_quality_summary
        IN  /\ FetchSucceeded
            /\ Len(raw_customers) = Len(result.value)
            /\ \A j \in 1..Len(out) : out[j].customer_id \in ids
            /\ \A id \in ids :
                   Cardinality({j \in 1..Len(out) : out[j].customer_id = id}) = 1
            /\ output.metadata.total_customers = Cardinality(ids)
            /\ counts.high_quality + counts.medium_quality + counts.low_quality
                   = Cardinality(ids)

\* two pages of two records each were fetched, with one id on both pages and
\* two ids in all, and the payload has been written
C20_Witness ==
    /\ PayloadWritten
    /\ pagesFetched = <<1, 2>>
    /\ Len(raw_customers) = 4
    /\ Cardinality({RawId(raw_customers[i]) : i \in 1..Len(raw_customers)}) = 2
    /\ \E i \in 1..2, j \in 3..4 : RawId(raw_customers[i]) = RawId(raw_customers[j])
    /\ Len(output.customers) = 2

----------------------------------------------------------------------------
\* Further properties of the client.

\* the 429 response r carries a Retry-After that int() accepts
HasIntegerRetryAfter(r) ==
    /\ Is429(r)
    /\ r.retry_after.present
    /\ r.retry_after.text # <<>>
    /\ PyIntOfStr(r.retry_after.text).ok

\* the wait that follows the response r is taken from the backoff table
WaitsByTable(r) == ~IsTransport(r) => ~HasIntegerRetryAfter(r)

\* the k-th entry of the table, the last entry for a k beyond the table
ClampedEntry(k) == IF k <= Len(backoff) THEN backoff[k] ELSE backoff[Len(backoff)]

\* C21: the backoff wait of attempt k is B[min(k-1, len(B)-1)] for every
\* non-empty table B: the index is within the table, and every attempt beyond
\* len(B) waits the last entry of B.
C21_BackoffIndexIsClamped ==
    /\ Len(backoff) >= 1
    /\ Len(sleeps) <= Len(gets)
    /\ \A k \in 1..Len(sleeps) :
           WaitsByTable(gets[k]) =>
               /\ Min(k - 1, Len(backoff) - 1) \in 0..(Len(backoff) - 1)
               /\ sleeps[k] = ClampedEntry(k)
               /\ k > Len(backoff) => sleeps[k] = backoff[Len(backoff)]

\* with a table of one entry, attempts 2 and 3 waited that entry, attempt 2
\* after a 429 whose Retry-After is not an integer
C21_Witness ==
    /\ Len(backoff) = 1
    /\ Len(sleeps) = 3
    /\ Is429(gets[2]) /\ gets[2].retry_after.present /\ ~HasIntegerRetryAfter(gets[2])
    /\ Is5xx(gets[3])
    /\ sleeps[2] = backoff[1]
    /\ sleeps[3] = backoff[1]

----------------------------------------------------------------------------
\* fetch_all_customers with its GETs counted.

\* Neither the records of a page nor the length of a wait bear on the number
\* of GETs: the pages carry no data field and a 429 carries no Retry-After, a
\* positive or a negative one, while every status and every total_pages field
\* is kept. A page may also announce one page more than MaxPages, so that a
\* later page can announce fewer or more pages than page 1 did.
CountedTotalPagesFields == TotalPagesFields \cup {JInt(MaxPages + 1)}

CountedBodies == {Body(DMissing, tp) : tp \in CountedTotalPagesFields}

CountedResponses ==
    {TransportError}
      \cup {HttpResponse(200, NoHeader, b) : b \in CountedBodies \cup {InvalidBody}}
      \cup {HttpResponse(429, h, InvalidBody) :
                h \in {NoHeader, Header(<<"7">>), Header(<<"-", "1">>)}}
      \cup {HttpResponse(s, NoHeader, InvalidBody) : s \in Statuses \ {200, 429}}

CountedInit ==
    /\ \E mr \in 0..MaxRetries : Constructed(mr, <<>>)
    /\ issued = Counted(0)
    /\ ProcessorIdle
    /\ output = NoFile
    /\ ExporterIdle
    /\ PipelineIdle

CountedNext ==
    \/ FetchAllCustomers
    \/ \E resp \in CountedResponses : TransportFailure(resp)
    \/ \E resp \in CountedResponses : Status200(resp)
    \/ \E resp \in CountedResponses : Status429(resp)
    \/ \E resp \in CountedResponses : Status5xx(resp)
    \/ \E resp \in CountedResponses : Status4xx(resp)
    \/ \E resp \in CountedResponses : StatusUnexpected(resp)
    \/ Exhausted
    \/ FirstPage
    \/ NextPage
    \/ Propagate

\* The client runs in one thread, every session.get ends (timeout=10) and
\* every sleep is finite: a step that can be taken is taken.
SpecCounted == CountedInit /\ [][CountedNext]_vars /\ WF_vars(CountedNext)

\* fetch_all_customers has returned or raised
FetchOver == pc \in {"done", "raised"}

\* _request has returned a body or raised
RequestEnded == pc \in {"req_returned", "req_raised"}

Max(a, b) == IF a >= b THEN a ELSE b

\* C22: whatever the server answers, a _request issues at most max_retries
\* GETs and ends in a returned body or a raised error; fetch_all_customers
\* issues at most max_retries * max(1, total_pages) GETs and always
\* terminates.
C22_BoundedGetsAndTermination ==
    /\ [](Len(gets) <= max_retries)
    /\ [](issued.n <= max_retries * Max(1, total_pages))
    /\ [](pc = "request" => <>RequestEnded)
    /\ <>FetchOver

\* with 3 retries and 2 pages, 6 GETs were issued and the fetch is over
C22_Witness ==
    /\ FetchOver
    /\ max_retries = 3
    /\ total_pages = 2
    /\ issued = Counted(6)

----------------------------------------------------------------------------
\* Further properties of the processor.

\* the first position of the customer_id cid in the input
FirstOccurrence(cid) == CHOOSE i \in WithId(cid) : \A k \in WithId(cid) : i <= k

\* C23: the records process_customers returns are in the order of the first
\* occurrence of their customer_id in the input; a later duplicate of a
\* higher score that replaces the stored record of an id takes that id's
\* position.
C23_OutputInFirstOccurrenceOrder ==
    ProcessReturned =>
        LET out == processed.value
        IN  \A j, k \in 1..Len(out) :
                j < k => FirstOccurrence(out[j].customer_id)
                             < FirstOccurrence(out[k].customer_id)

\* the record of the first id was replaced by a duplicate that comes after the
\* first record of a second id, and is still the first of the output
C23_Witness ==
    /\ ProcessReturned
    /\ Len(raw_customers) = 3
    /\ Len(processed.value) = 2
    /\ Transformed(1).customer_id = Transformed(3).customer_id
    /\ Transformed(1).customer_id # Transformed(2).customer_id
    /\ ScoreOf(Transformed(1)) < ScoreOf(Transformed(3))
    /\ processed.value = <<Transformed(3), Transformed(2)>>


\* the number of pages page 1 announces: its total_pages field as an integer,
\* at least 1, and 1 when the field is missing or null
AnnouncedPages(j) ==
    IF j.t = "int" THEN Max(1, j.n)
    ELSE IF j.t = "str" /\ PyIntOfStr(j.s).ok THEN Max(1, PyIntOfStr(j.s).v)
    ELSE 1

\* C24: the number of pages fetch_all_customers fetches is fixed by the
\* total_pages field of page 1 alone: a fetch that returns has fetched exactly
\* the pages 1..max(1, total_pages of page 1); whatever total_pages a later
\* page carries, the next page is requested exactly when the page number is
\* below the number page 1 announced; and a page-1 total_pages of 0 or a
\* negative one results in exactly one page fetch.
C24_PageCountFixedByFirstPage ==
    Len(served) >= 1 =>
        LET n == AnnouncedPages(firstTotalPages)
        IN  /\ Len(pagesFetched) <= n
            /\ pc = "done" => pagesFetched = [i \in 1..n |-> i]
            /\ (pc = "req_returned" /\ page >= 2) =>
                   IF page < n
                   THEN ENABLED (NextPage /\ pc' = "request" /\ page' = page + 1)
                        /\ ~ENABLED (NextPage /\ pc' = "done")
                   ELSE ENABLED (NextPage /\ pc' = "done")
                        /\ ~ENABLED (NextPage /\ pc' = "request")
            /\ (firstTotalPages.t = "int" /\ firstTotalPages.n <= 0) =>
                   /\ pagesFetched = <<1>>
                   /\ pc \in {"req_returned", "done"}
                   /\ pc = "req_returned" => ENABLED (FirstPage /\ pc' = "done")

C24_Witness ==
    /\ pc = "req_returned"
    /\ page = 2
    /\ firstTotalPages = JInt(3)
    /\ ret.total_pages = JInt(1)
    /\ pagesFetched = <<1, 2>>
    /\ ENABLED (NextPage /\ page' = 3)


\* the positions of the raw records whose id is absent or null
IdLess == {i \in 1..Len(raw_customers) : raw_customers[i].id \in {JMissing, JNull}}

\* the first position, among the id-less records, of the highest score
FirstBestIdLess ==
    CHOOSE i \in IdLess :
        /\ \A k \in IdLess : ScoreOf(Transformed(k)) <= ScoreOf(Transformed(i))
        /\ \A k \in IdLess :
               ScoreOf(Transformed(k)) = ScoreOf(Transformed(i)) => i <= k

\* C25: raw records whose id is absent or null are neither dropped nor
\* rejected: process_customers never raises because of a record's id, and
\* when it returns, all the id-less records of the input, however many, are
\* represented by exactly one output record, whose customer_id is null and
\* which is the first, in input order, of the id-less records of the highest
\* data_quality_score.
C25_IdLessRecordsShareTheNullKey ==
    /\ proc_pc = "raised" =>
           JNull \in {raw_customers[cursor].first_name, raw_customers[cursor].last_name}
    /\ (ProcessReturned /\ IdLess # {}) =>
           LET out   == processed.value
               nulls == {j \in 1..Len(out) : out[j].customer_id = JNull}
           IN  /\ Cardinality(nulls) = 1
               /\ \A j \in 1..Len(out) : out[j].customer_id # JMissing
               /\ \A j \in nulls : out[j] = Transformed(FirstBestIdLess)
               /\ Len(out) = 1 + Cardinality({raw_customers[i].id :
                                     i \in (1..Len(raw_customers)) \ IdLess})

\* a record with a null id, a record with an id and a higher-scoring record
\* with no id field were processed
C25_Witness ==
    /\ ProcessReturned
    /\ Len(raw_customers) = 3
    /\ raw_customers[1].id = JNull
    /\ raw_customers[2].id = JInt(1)
    /\ raw_customers[3].id = JMissing
    /\ ScoreOf(Transformed(1)) < ScoreOf(Transformed(3))
    /\ processed.value = <<Transformed(3), Transformed(2)>>
    /\ processed.value[1].customer_id = JNull


----------------------------------------------------------------------------
\* Further properties of the client's waits.

\* the attempts of the current _request that ended in a retryable outcome
RetryableAttempts == {k \in 1..Len(gets) : IsRetryable(gets[k])}

\* C26: in _request every retryable outcome (transport failure, 429, 5xx,
\* unexpected status) is followed by exactly one wait, the outcome of the
\* final attempt max_retries included: attempt k's wait is performed before
\* anything else happens, and a _request whose max_retries attempts all ended
\* in a retryable outcome has performed exactly max_retries waits when its
\* error is raised.
C26_EveryRetryableOutcomeWaitsOnce ==
    /\ Len(sleeps) = Cardinality(RetryableAttempts)
    /\ \A k \in RetryableAttempts :
           k = Cardinality({i \in RetryableAttempts : i <= k})
    /\ (pc # "init" /\ Len(gets) = max_retries /\ RetryableAttempts = 1..max_retries) =>
           /\ Len(sleeps) = max_retries
           /\ pc \in {"request", "req_raised", "raised"}
           /\ pc = "request" => attempt = max_retries + 1 /\ ENABLED Exhausted


----------------------------------------------------------------------------
\* Further properties of the pipeline.

\* the number of records retained by process_customers whose score is in S
RetainedWithScore(S) ==
    Cardinality({j \in 1..Len(processed.value) : ScoreOf(processed.value[j]) \in S})

\* C27: _transform_customer only produces the scores 100, 90 and 80, so in
\* every payload that run_pipeline writes low_quality is 0, medium_quality is
\* the number of retained records of score 80 and high_quality is the number
\* of retained records of score 90 or 100.
C27_PayloadCountsFollowTheThreeScores ==
    PayloadWritten =>
        LET out    == output.customers
            counts == output.metadata.data_quality_summary
        IN  /\ processed.returned
            /\ Len(out) = Len(processed.value)
            /\ \A j \in 1..Len(out) : ScoreOf(out[j]) \in {100, 90, 80}
            /\ counts.low_quality = 0
            /\ counts.medium_quality = RetainedWithScore({80})
            /\ counts.high_quality = RetainedWithScore({90, 100})

\* a payload was written of one record of score 90 and one of score 80
C27_Witness ==
    /\ PayloadWritten
    /\ Len(processed.value) = 2
    /\ RetainedWithScore({90}) = 1
    /\ RetainedWithScore({80}) = 1
    /\ output.metadata.data_quality_summary
           = [high_quality |-> 1, medium_quality |-> 1, low_quality |-> 0]

====
